---- MODULE Spec2Model ----
(***************************************************************************)
(* Fantasy F1 optimiser: the roster solves (normal_solve, drs_solve), the  *)
(* persisted team file data/team.json they read and overwrite, and the     *)
(* comparison of all solve types (run_all_solves, compare_solves).         *)
(*                                                                         *)
(* Units.  Money (price, price_change, cost cap, remaining budget) is      *)
(* counted in hundredths of a million, so the default budget 100.0 is      *)
(* 10000 and one decimal place is a multiple of 10.  Points (xPts) and the *)
(* configuration weights are integers.                                     *)
(***************************************************************************)
EXTENDS Integers, Sequences, FiniteSets, TLC

VARIABLES
    projections,   \* the projections DataFrame handed to the solves
    config,        \* config/solver_config.yml
    team_file,     \* data/team.json
    round,         \* number of times new projections were fetched
    solves,        \* the list handed to compare_solves
    last           \* what the last call computed, printed and returned

vars == <<projections, config, team_file, round, solves, last>>

(***************************************************************************)
(* Bounds of the model.                                                    *)
(***************************************************************************)
MaxRounds == 1      \* projections are fetched at most this many times anew
MaxPenalty == 7     \* values 0..MaxPenalty of the continuous penalty_transfers
MaxWeight == 2      \* largest price_change_weight of a configuration

(***************************************************************************)
(* Program constants.                                                      *)
(***************************************************************************)
NumDrivers == 5              \* "Exactly_5_Drivers"
NumConstructors == 2         \* "Exactly_2_Constructors"
UnlimitedTransfers == 1000   \* available_transfers of the first race
DefaultBudget == 10000       \* 100.0, the default cost cap and budget
PenaltyWeight == 10          \* objective: - 10 * penalty_transfers
RollWeight == 15             \* a roll_transfer_weight of the configuration file

(***************************************************************************)
(* Helpers on sequences and sets.                                          *)
(***************************************************************************)
SeqToSet(s) == {s[i] : i \in 1..Len(s)}

\* Python: e in list
InList(e, s) == \E i \in 1..Len(s) : s[i] = e

\* Python: [e for e in s if e in keep]
FilterIn(s, keep) == SelectSeq(s, LAMBDA e : e \in keep)

\* Python: [e for e in s if e not in drop]   (drop is a list)
FilterNotInList(s, drop) == SelectSeq(s, LAMBDA e : ~InList(e, drop))

RECURSIVE SumSeq(_, _)
\* Python: sum(f[e] for e in s)
SumSeq(s, f) == IF s = <<>> THEN 0 ELSE f[Head(s)] + SumSeq(Tail(s), f)

RECURSIVE SumSet(_, _)
\* lp.lpSum over the entries whose binary variable is 1
SumSet(S, f) ==
    IF S = {} THEN 0
    ELSE LET e == CHOOSE e \in S : TRUE IN f[e] + SumSet(S \ {e}, f)

(***************************************************************************)
(* Projection tables.  Every table lists its drivers and constructors in   *)
(* index order and gives price, xPts and price_change for the names it     *)
(* holds.  A name of one week may be missing the next week.                *)
(***************************************************************************)
DriversA == <<"d1", "d2", "d3", "d4", "d5", "d6">>
DriversB == <<"d2", "d3", "d4", "d5", "d6", "d7">>
ConstructorsA == <<"k1", "k2", "k3">>
ConstructorsB == <<"k1", "k2", "k3", "k4">>

PriceA ==
    ("d1" :> 2500) @@ ("d2" :> 2000) @@ ("d3" :> 1500) @@ ("d4" :> 1000) @@
    ("d5" :> 1000) @@ ("d6" :> 500) @@ ("d7" :> 500) @@
    ("k1" :> 2000) @@ ("k2" :> 1500) @@ ("k3" :> 1000) @@ ("k4" :> 500)

\* prices after a week of price changes; d6 is priced to the hundredth
PriceB ==
    ("d1" :> 2530) @@ ("d2" :> 1990) @@ ("d3" :> 1500) @@ ("d4" :> 1010) @@
    ("d5" :> 1000) @@ ("d6" :> 503) @@ ("d7" :> 500) @@
    ("k1" :> 2030) @@ ("k2" :> 1500) @@ ("k3" :> 990) @@ ("k4" :> 500)

\* no roster of 5 and 2 fits the default budget
PriceHigh ==
    ("d1" :> 2500) @@ ("d2" :> 2500) @@ ("d3" :> 2000) @@ ("d4" :> 2000) @@
    ("d5" :> 2000) @@ ("d6" :> 2000) @@ ("d7" :> 2000) @@
    ("k1" :> 2000) @@ ("k2" :> 2000) @@ ("k3" :> 2000) @@ ("k4" :> 2000)

PointsA ==
    ("d1" :> 30) @@ ("d2" :> 25) @@ ("d3" :> 18) @@ ("d4" :> 12) @@
    ("d5" :> 10) @@ ("d6" :> 8) @@ ("d7" :> 3) @@
    ("k1" :> 40) @@ ("k2" :> 30) @@ ("k3" :> 22) @@ ("k4" :> 10)

\* a week that turns the order around; two drivers tie for the best
PointsB ==
    ("d1" :> 4) @@ ("d2" :> 6) @@ ("d3" :> 28) @@ ("d4" :> 28) @@
    ("d5" :> 9) @@ ("d6" :> 35) @@ ("d7" :> 40) @@
    ("k1" :> 12) @@ ("k2" :> 15) @@ ("k3" :> 45) @@ ("k4" :> 50)

PriceChangeA ==
    ("d1" :> -3) @@ ("d2" :> -1) @@ ("d3" :> 1) @@ ("d4" :> 1) @@
    ("d5" :> 0) @@ ("d6" :> 3) @@ ("d7" :> 1) @@
    ("k1" :> -3) @@ ("k2" :> 0) @@ ("k3" :> 1) @@ ("k4" :> 3)

Restrict(f, S) == [n \in S |-> f[n]]

Table(ds, ks, pr, xp) ==
    LET present == SeqToSet(ds) \cup SeqToSet(ks) IN
    [drivers |-> ds, constructors |-> ks,
     price |-> Restrict(pr, present),
     xPts |-> Restrict(xp, present),
     price_change |-> Restrict(PriceChangeA, present)]

ProjectionTables ==
    {Table(DriversA, ConstructorsA, PriceA, PointsA),
     Table(DriversB, ConstructorsB, PriceA, PointsB),
     Table(DriversA, ConstructorsA, PriceB, PointsB),
     Table(DriversA, ConstructorsA, PriceHigh, PointsA)}

(***************************************************************************)
(* config/solver_config.yml: absent, or holding the two weights.           *)
(***************************************************************************)
Configs ==
    {[exists |-> FALSE, price_change_weight |-> 0, roll_transfer_weight |-> 0]}
    \cup {[exists |-> TRUE, price_change_weight |-> MaxWeight,
           roll_transfer_weight |-> RollWeight]}

\* normal.py 27-35, drs.py 34-44
LoadConfig(cfg) ==
    IF cfg.exists
    THEN [price_change_weight |-> cfg.price_change_weight,
          roll_transfer_weight |-> cfg.roll_transfer_weight]
    ELSE [price_change_weight |-> 0, roll_transfer_weight |-> 0]

(***************************************************************************)
(* data/team.json.  kind is "absent" (no file), "invalid" (the text is not *)
(* JSON: json.load raises JSONDecodeError), "no_key" (JSON that lacks one  *)
(* of the four keys) or "team" (the four keys, as a solve writes them).    *)
(***************************************************************************)
NoTeam ==
    [drivers |-> <<>>, constructors |-> <<>>,
     available_transfers |-> 0, remaining_budget |-> 0]

AbsentFile == [kind |-> "absent", data |-> NoTeam]
InvalidFile == [kind |-> "invalid", data |-> NoTeam]
NoKeyFile == [kind |-> "no_key", data |-> NoTeam]
TeamFile(data) == [kind |-> "team", data |-> data]

\* a team entered by hand, with a single free transfer and nothing banked
HandTeam ==
    TeamFile([drivers |-> <<"d1", "d2", "d3", "d4", "d5">>,
              constructors |-> <<"k1", "k2">>,
              available_transfers |-> 1, remaining_budget |-> 0])

InitialFiles == {AbsentFile, InvalidFile, NoKeyFile, HandTeam}

\* the defaults of the except branch with no budget
InvalidJsonDefaults_NoBudget ==
    [error |-> "", has_file |-> TRUE,
     previous_drivers |-> <<>>, previous_constructors |-> <<>>,
     available_transfers |-> UnlimitedTransfers,
     remaining_budget |-> 0]

\* except json.JSONDecodeError: "Using default values."
InvalidJsonDefaults ==
    [error |-> "", has_file |-> TRUE,
     previous_drivers |-> <<>>, previous_constructors |-> <<>>,
     available_transfers |-> UnlimitedTransfers,
     remaining_budget |-> DefaultBudget]

\* The locals after the load block.  error is the exception that leaves the
\* solve, "" when none does.  has_file tells which branch set cost_cap.
LoadTeam(file) ==
    IF file.kind = "absent"
    THEN [error |-> "", has_file |-> FALSE,
          previous_drivers |-> <<>>, previous_constructors |-> <<>>,
          available_transfers |-> UnlimitedTransfers,
          remaining_budget |-> 0]
    ELSE IF file.kind = "invalid"
    THEN InvalidJsonDefaults
    ELSE IF file.kind = "no_key"
    THEN [error |-> "KeyError", has_file |-> TRUE,
          previous_drivers |-> <<>>, previous_constructors |-> <<>>,
          available_transfers |-> 0, remaining_budget |-> 0]
    ELSE [error |-> "", has_file |-> TRUE,
          previous_drivers |-> file.data.drivers,
          previous_constructors |-> file.data.constructors,
          available_transfers |-> file.data.available_transfers,
          remaining_budget |-> file.data.remaining_budget]

\* the team value without the constructors' prices
CurrentTeamValue_DriversOnly(P, ld) ==
    SumSeq(FilterIn(ld.previous_drivers, SeqToSet(P.drivers)), P.price)

\* current_team_value: the present prices of the previous names still listed
CurrentTeamValue(P, ld) ==
    SumSeq(FilterIn(ld.previous_drivers, SeqToSet(P.drivers)), P.price)
    + SumSeq(FilterIn(ld.previous_constructors, SeqToSet(P.constructors)), P.price)

CostCap(P, ld) ==
    IF ld.has_file
    THEN CurrentTeamValue(P, ld) + ld.remaining_budget
    ELSE DefaultBudget

(***************************************************************************)
(* The linear program of normal_solve.  x, y and b are the sets of names   *)
(* whose binary variable is 1; penalty is the value of penalty_transfers.  *)
(***************************************************************************)
Exactly5Drivers(x) == Cardinality(x) = NumDrivers

Exactly2Constructors(y) == Cardinality(y) = NumConstructors

\* the program without the "Cost_Cap" constraint
CostCapConstraint_Dropped(P, x, y, cost_cap) == TRUE

CostCapConstraint(P, x, y, cost_cap) ==
    SumSet(x, P.price) + SumSet(y, P.price) <= cost_cap

OneBoost(b) == Cardinality(b) = 1

BoostOnlyIfSelected(b, x) == b \subseteq x

\* total_transfers: the selected names that are not in the previous lists
TotalTransfers(x, y, ld) ==
    Cardinality({d \in x : ~InList(d, ld.previous_drivers)})
    + Cardinality({c \in y : ~InList(c, ld.previous_constructors)})

PenaltyConstraint(penalty, total_transfers, available_transfers) ==
    penalty >= total_transfers - available_transfers

\* the rosters that meet the cardinality and cost constraints
Rosters(P, cost_cap) ==
    LET fives == {x \in SUBSET SeqToSet(P.drivers) : Exactly5Drivers(x)}
        twos == {y \in SUBSET SeqToSet(P.constructors) : Exactly2Constructors(y)}
    IN {xy \in fives \X twos : CostCapConstraint(P, xy[1], xy[2], cost_cap)}

\* penalty_transfers is continuous with lower bound 0 and no upper bound:
\* the values tried are 0 .. MaxPenalty
Penalties(total_transfers, available_transfers) ==
    {p \in 0..MaxPenalty :
        PenaltyConstraint(p, total_transfers, available_transfers)}

(***************************************************************************)
(* The objective is a sum of three terms: one of the selection (x, y), one *)
(* of the boosts, one of penalty_transfers and roll_transfer.  The         *)
(* constraints tie the boosts, the penalty and the roll to the selection   *)
(* only.  So the assignments of greatest objective are found selection by  *)
(* selection (the best boosts and the best penalty and roll of each), and  *)
(* then among the selections.                                              *)
(***************************************************************************)
\* the xPts of the selected names and the weighted price change term
SelectionTerm(P, x, y, w) ==
    SumSet(y, P.xPts) + SumSet(x, P.xPts)
    + w.price_change_weight * (SumSet(y, P.price_change) + SumSet(x, P.price_change))

\* the objective without the penalty term
SlackTerm_PenaltyFree(penalty, roll, w) == w.roll_transfer_weight * roll

\* - 10 * penalty_transfers + roll_transfer_weight * roll_transfer
SlackTerm(penalty, roll, w) ==
    w.roll_transfer_weight * roll - PenaltyWeight * penalty

\* the boosts' share with the weights of the two tiers exchanged
BoostTerm_TiersExchanged(P, b, b2, b3) ==
    SumSet(b, P.xPts) + 2 * SumSet(b2, P.xPts) + SumSet(b3, P.xPts)

\* the boosts' share of base_points: b in normal_solve, b2 and b3 in drs_solve
BoostTerm(P, b, b2, b3) ==
    SumSet(b, P.xPts) + SumSet(b2, P.xPts) + 2 * SumSet(b3, P.xPts)

\* the objective: base_points + price_change_weight * price_change_term
\* - 10 * penalty_transfers (+ roll_transfer_weight * roll_transfer)
Objective(P, a, w) ==
    SelectionTerm(P, a.x, a.y, w) + BoostTerm(P, a.b, a.b2, a.b3)
    + SlackTerm(a.penalty, a.roll, w)

\* of a set of records with a field objective, those of greatest objective
Best(scored) ==
    LET values == {s.objective : s \in scored} IN
    IF scored = {} THEN {}
    ELSE LET best == CHOOSE v \in values : \A u \in values : u <= v IN
         {s \in scored : s.objective = best}

\* normal_solve: one boost, b
NormalBoosts(P, x) ==
    {q \in (SUBSET SeqToSet(P.drivers)) \X {{}} \X {{}} :
        OneBoost(q[1]) /\ BoostOnlyIfSelected(q[1], x)}

\* normal_solve: penalty_transfers, and no roll_transfer
NormalSlacks(x, y, ld) ==
    Penalties(TotalTransfers(x, y, ld), ld.available_transfers) \X {0}

NotBothBoosts(b2, b3) == b2 \cap b3 = {}

\* "Roll_Transfer_Condition", added only if available_transfers > 1:
\* roll_transfer <= 1 - total_transfers / available_transfers
RollTransferCondition(roll, total_transfers, available_transfers) ==
    available_transfers > 1 =>
        roll * available_transfers <= available_transfers - total_transfers

\* roll_transfer is binary
Rolls(total_transfers, available_transfers) ==
    {r \in {0, 1} : RollTransferCondition(r, total_transfers, available_transfers)}

\* drs_solve: two boosts, b2 and b3
DrsBoosts(P, x) ==
    LET one == {b \in SUBSET SeqToSet(P.drivers) : OneBoost(b)} IN
    {q \in {{}} \X one \X one :
        /\ BoostOnlyIfSelected(q[2], x)
        /\ BoostOnlyIfSelected(q[3], x)
        /\ NotBothBoosts(q[2], q[3])}

\* drs_solve: penalty_transfers and roll_transfer
DrsSlacks(x, y, ld) ==
    Penalties(TotalTransfers(x, y, ld), ld.available_transfers)
    \X Rolls(TotalTransfers(x, y, ld), ld.available_transfers)

\* prob.solve of the program of fn ("normal_solve" or "drs_solve"): the
\* assignments of greatest objective, each with its value; the empty set
\* when the status is not optimal (no assignment meets the constraints)
Maximise(fn, P, ld, cost_cap, w) ==
    LET perSelection ==
            UNION {
                LET boosts ==
                        Best({[q |-> q, objective |-> BoostTerm(P, q[1], q[2], q[3])] :
                                q \in IF fn = "normal_solve"
                                      THEN NormalBoosts(P, xy[1])
                                      ELSE DrsBoosts(P, xy[1])})
                    slacks ==
                        Best({[q |-> q, objective |-> SlackTerm(q[1], q[2], w)] :
                                q \in IF fn = "normal_solve"
                                      THEN NormalSlacks(xy[1], xy[2], ld)
                                      ELSE DrsSlacks(xy[1], xy[2], ld)})
                IN {[x |-> xy[1], y |-> xy[2],
                     b |-> bs[1].q[1], b2 |-> bs[1].q[2], b3 |-> bs[1].q[3],
                     penalty |-> bs[2].q[1], roll |-> bs[2].q[2]] :
                        bs \in boosts \X slacks} :
                xy \in Rosters(P, cost_cap)}
    IN Best({[a |-> a, objective |-> Objective(P, a, w)] : a \in perSelection})

NormalSolutions(P, ld, cost_cap, w) ==
    Maximise("normal_solve", P, ld, cost_cap, w)

DrsSolutions(P, ld, cost_cap, w) ==
    Maximise("drs_solve", P, ld, cost_cap, w)

(***************************************************************************)
(* What a call leaves behind: the locals of the solve, what it printed,    *)
(* what it returned.  fn is the function called, error the exception that  *)
(* left it ("" when it returned).                                          *)
(***************************************************************************)
NoneValue == [is_none |-> TRUE, solve_name |-> "", base_xPts |-> 0]

\* the values of the program's variables before any solve
NoSolution ==
    [x |-> {}, y |-> {}, b |-> {}, b2 |-> {}, b3 |-> {}, penalty |-> 0, roll |-> 0]

NoCall ==
    [fn |-> "none", error |-> "", optimal |-> FALSE,
     previous_drivers |-> <<>>, previous_constructors |-> <<>>,
     available_transfers |-> 0, cost_cap |-> 0,
     price_change_weight |-> 0, roll_transfer_weight |-> 0,
     selected_drivers |-> <<>>, selected_constructors |-> <<>>,
     boosted_driver |-> "", boosted_driver_2x |-> "", boosted_driver_3x |-> "",
     transfers_used |-> 0, penalty |-> 0, roll_transfer |-> 0, objective |-> 0,
     base_xPts |-> 0, total_selected_cost |-> 0, new_remaining_budget |-> 0,
     transfers |-> <<>>,
     asked |-> FALSE, save |-> "", write |-> "", saved_message |-> FALSE,
     solution |-> NoSolution,
     returned |-> NoneValue, differences |-> <<>>]

\* the locals set before the linear program is built
Loaded(call, fn, ld, cost_cap, w) ==
    [call EXCEPT !.fn = fn,
                 !.previous_drivers = ld.previous_drivers,
                 !.previous_constructors = ld.previous_constructors,
                 !.available_transfers = ld.available_transfers,
                 !.cost_cap = cost_cap,
                 !.price_change_weight = w.price_change_weight,
                 !.roll_transfer_weight = w.roll_transfer_weight]

\* transfers_used, counted on the extracted lists
TransfersUsed(selected_drivers, selected_constructors, ld) ==
    Len(FilterNotInList(selected_drivers, ld.previous_drivers))
    + Len(FilterNotInList(selected_constructors, ld.previous_constructors))

\* base_xPts of normal_solve
NormalBaseXPts(P, selected_drivers, selected_constructors, boosted_driver, penalty) ==
    SumSeq(selected_constructors, P.xPts) + SumSeq(selected_drivers, P.xPts)
    + P.xPts[boosted_driver] - 10 * penalty

TotalSelectedCost(P, selected_drivers, selected_constructors) ==
    SumSeq(selected_drivers, P.price) + SumSeq(selected_constructors, P.price)

\* f"{removed} > {added}": the line of one transfer
TransferLine(removed, added) == <<removed, " > ", added>>

\* the i-th removed name paired with the i-th added one
Pairs(to_remove, to_add) ==
    [i \in 1..(IF Len(to_remove) <= Len(to_add) THEN Len(to_remove) ELSE Len(to_add))
        |-> TransferLine(to_remove[i], to_add[i])]

\* the transfers with each line written as "added > removed"
Transfers_AddedFirst(previous_drivers, previous_constructors, selected_drivers, selected_constructors) ==
    LET drivers_to_add == FilterNotInList(selected_drivers, previous_drivers)
        drivers_to_remove == FilterNotInList(previous_drivers, selected_drivers)
        constructors_to_add ==
            FilterNotInList(selected_constructors, previous_constructors)
        constructors_to_remove ==
            FilterNotInList(previous_constructors, selected_constructors)
    IN Pairs(drivers_to_add, drivers_to_remove)
       \o Pairs(constructors_to_add, constructors_to_remove)

\* "Determine transfers to make": transfers
Transfers(previous_drivers, previous_constructors, selected_drivers, selected_constructors) ==
    LET drivers_to_add == FilterNotInList(selected_drivers, previous_drivers)
        drivers_to_remove == FilterNotInList(previous_drivers, selected_drivers)
        constructors_to_add ==
            FilterNotInList(selected_constructors, previous_constructors)
        constructors_to_remove ==
            FilterNotInList(previous_constructors, selected_constructors)
    IN Pairs(drivers_to_remove, drivers_to_add)
       \o Pairs(constructors_to_remove, constructors_to_add)

\* "Extract results" and the cost details of normal_solve, for the optimal s
NormalExtract(call, P, ld, s) ==
    LET selected_drivers == FilterIn(P.drivers, s.a.x)
        selected_constructors == FilterIn(P.constructors, s.a.y)
        boosted_driver == Head(FilterIn(P.drivers, s.a.b))
        cost == TotalSelectedCost(P, selected_drivers, selected_constructors)
    IN [call EXCEPT
          !.optimal = TRUE,
          !.solution = s.a,
          !.selected_drivers = selected_drivers,
          !.selected_constructors = selected_constructors,
          !.boosted_driver = boosted_driver,
          !.transfers_used =
              TransfersUsed(selected_drivers, selected_constructors, ld),
          !.penalty = s.a.penalty,
          !.objective = s.objective,
          !.base_xPts = NormalBaseXPts(P, selected_drivers, selected_constructors,
                                       boosted_driver, s.a.penalty),
          !.total_selected_cost = cost,
          !.new_remaining_budget = call.cost_cap - cost,
          !.transfers = Transfers(ld.previous_drivers, ld.previous_constructors,
                                  selected_drivers, selected_constructors)]

(***************************************************************************)
(* Saving the team.                                                        *)
(***************************************************************************)
\* input("Do you want to save this team? (y/n): ").lower().strip()
SaveAnswers == {"y", "n"}

\* a save that does not look at the answer
SaveConfirmed_Always(save) == TRUE

SaveConfirmed(save) == save = "y"

\* the ledger rule without the first race branch
NextAvailableTransfers_NoFirstRace(previous_drivers, previous_constructors, transfers_used, available_transfers) ==
    IF transfers_used < available_transfers THEN 3 ELSE 2

NextAvailableTransfers(previous_drivers, previous_constructors, transfers_used, available_transfers) ==
    IF previous_drivers = <<>> /\ previous_constructors = <<>>
    THEN 2
    ELSE IF transfers_used < available_transfers THEN 3 ELSE 2

\* team_data of normal_solve
NormalTeamData(r) ==
    [drivers |-> r.selected_drivers,
     constructors |-> r.selected_constructors,
     available_transfers |->
         NextAvailableTransfers(r.previous_drivers, r.previous_constructors,
                                r.transfers_used, r.available_transfers),
     remaining_budget |-> r.new_remaining_budget]

\* os.makedirs, open('data/team.json', 'w') and json.dump.  The write goes
\* through ("written"), or an OSError leaves before the file is opened
\* ("open_failed": the old file stands), or the write stops after open()
\* has truncated the file ("dump_interrupted": what is left is no JSON).
WriteOutcomes == {"written", "open_failed", "dump_interrupted"}

WriteTeamFile(old, team_data, outcome) ==
    IF outcome = "written" THEN TeamFile(team_data)
    ELSE IF outcome = "open_failed" THEN old
    ELSE InvalidFile

\* the locals and prints of the save block; wr is the write's outcome
Saved(r, save, wr, show_prints) ==
    IF SaveConfirmed(save)
    THEN [r EXCEPT !.asked = TRUE, !.save = save, !.write = wr,
                   !.error = IF wr = "written" THEN "" ELSE "OSError",
                   !.saved_message = (wr = "written" /\ show_prints)]
    ELSE [r EXCEPT !.asked = TRUE, !.save = save]

(***************************************************************************)
(* normal_solve(projections)                                               *)
(***************************************************************************)
NormalSolve ==
    LET w == [price_change_weight |-> LoadConfig(config).price_change_weight,
              roll_transfer_weight |-> 0]
        ld == LoadTeam(team_file)
    IN
    /\ last.fn = "none"
    /\ IF ld.error # ""
       THEN /\ last' = [NoCall EXCEPT !.fn = "normal_solve", !.error = ld.error]
            /\ UNCHANGED team_file
       ELSE LET cost_cap == CostCap(projections, ld)
                call == Loaded(NoCall, "normal_solve", ld, cost_cap, w)
                best == NormalSolutions(projections, ld, cost_cap, w)
            IN IF best = {}
               THEN /\ last' = call
                    /\ UNCHANGED team_file
               ELSE \E s \in best, save \in SaveAnswers, wr \in WriteOutcomes :
                      LET r == NormalExtract(call, projections, ld, s) IN
                      /\ last' = Saved(r, save, wr, TRUE)
                      /\ team_file' =
                           IF SaveConfirmed(save)
                           THEN WriteTeamFile(team_file, NormalTeamData(r), wr)
                           ELSE team_file
    /\ UNCHANGED <<projections, config, round, solves>>

(***************************************************************************)
(* drs_solve(projections, show_prints, ask_to_save)                        *)
(***************************************************************************)
\* base_xPts with the price change of the selected names left in
DrsBaseXPts_WithPriceChange(P, selected_drivers, selected_constructors, boosted_driver_2x, boosted_driver_3x, penalty) ==
    SumSeq(selected_constructors, P.xPts) + SumSeq(selected_drivers, P.xPts)
    + SumSeq(selected_constructors, P.price_change)
    + SumSeq(selected_drivers, P.price_change)
    + P.xPts[boosted_driver_2x] + 2 * P.xPts[boosted_driver_3x]
    - 10 * penalty

\* base_xPts of drs_solve
DrsBaseXPts(P, selected_drivers, selected_constructors, boosted_driver_2x, boosted_driver_3x, penalty) ==
    SumSeq(selected_constructors, P.xPts) + SumSeq(selected_drivers, P.xPts)
    + P.xPts[boosted_driver_2x] + 2 * P.xPts[boosted_driver_3x]
    - 10 * penalty

\* "Extract results" and the cost details of drs_solve, for the optimal s
DrsExtract(call, P, ld, s) ==
    LET selected_drivers == FilterIn(P.drivers, s.a.x)
        selected_constructors == FilterIn(P.constructors, s.a.y)
        boosted_driver_2x == Head(FilterIn(P.drivers, s.a.b2))
        boosted_driver_3x == Head(FilterIn(P.drivers, s.a.b3))
        cost == TotalSelectedCost(P, selected_drivers, selected_constructors)
    IN [call EXCEPT
          !.optimal = TRUE,
          !.solution = s.a,
          !.selected_drivers = selected_drivers,
          !.selected_constructors = selected_constructors,
          !.boosted_driver_2x = boosted_driver_2x,
          !.boosted_driver_3x = boosted_driver_3x,
          !.transfers_used =
              TransfersUsed(selected_drivers, selected_constructors, ld),
          !.penalty = s.a.penalty,
          !.roll_transfer = s.a.roll,
          !.objective = s.objective,
          !.base_xPts = DrsBaseXPts(P, selected_drivers, selected_constructors,
                                    boosted_driver_2x, boosted_driver_3x,
                                    s.a.penalty),
          !.total_selected_cost = cost,
          !.new_remaining_budget = call.cost_cap - cost,
          !.transfers = Transfers(ld.previous_drivers, ld.previous_constructors,
                                  selected_drivers, selected_constructors)]

\* round(new_remaining_budget, 1): the nearest multiples of 10 hundredths.
\* Half way between two of them the float's binary value decides, so both
\* are outcomes.
Round1(v) ==
    LET lo == v - (v % 10) IN
    IF v % 10 < 5 THEN {lo}
    ELSE IF v % 10 > 5 THEN {lo + 10}
    ELSE {lo, lo + 10}

\* team_data of drs_solve, for each outcome of the rounding
DrsTeamData(r) ==
    {[drivers |-> r.selected_drivers,
      constructors |-> r.selected_constructors,
      available_transfers |->
          NextAvailableTransfers(r.previous_drivers, r.previous_constructors,
                                 r.transfers_used, r.available_transfers),
      remaining_budget |-> rb] : rb \in Round1(r.new_remaining_budget)}

\* return_dic
DrsReturn(r) ==
    [is_none |-> FALSE, solve_name |-> "DRS Boost", base_xPts |-> r.base_xPts]

\* the two ways optimise.py calls drs_solve: drs_solve(projections), and
\* drs_solve(projections, show_prints=False, ask_to_save=False)
DrsCalls ==
    {[show_prints |-> TRUE, ask_to_save |-> TRUE],
     [show_prints |-> FALSE, ask_to_save |-> FALSE]}

DrsSolve ==
    LET w == LoadConfig(config)
        ld == LoadTeam(team_file)
    IN
    /\ last.fn = "none"
    /\ IF ld.error # ""
       THEN /\ last' = [NoCall EXCEPT !.fn = "drs_solve", !.error = ld.error]
            /\ UNCHANGED team_file
       ELSE LET cost_cap == CostCap(projections, ld)
                call == Loaded(NoCall, "drs_solve", ld, cost_cap, w)
                best == DrsSolutions(projections, ld, cost_cap, w)
            IN IF best = {}
               THEN /\ last' = call
                    /\ UNCHANGED team_file
               ELSE \E s \in best, args \in DrsCalls :
                      LET r == DrsExtract(call, projections, ld, s) IN
                      IF args.ask_to_save
                      THEN \E save \in SaveAnswers, wr \in WriteOutcomes,
                              team_data \in DrsTeamData(r) :
                             LET done == Saved(r, save, wr, args.show_prints) IN
                             /\ last' = IF done.error = ""
                                        THEN [done EXCEPT !.returned = DrsReturn(r)]
                                        ELSE done
                             /\ team_file' =
                                  IF SaveConfirmed(save)
                                  THEN WriteTeamFile(team_file, team_data, wr)
                                  ELSE team_file
                      ELSE /\ last' = [r EXCEPT !.returned = DrsReturn(r)]
                           /\ UNCHANGED team_file
    /\ UNCHANGED <<projections, config, round, solves>>

(***************************************************************************)
(* run_all_solves and compare_solves.                                      *)
(***************************************************************************)
\* def normal_solve(projections)
NormalSolveParams == {"projections"}

\* def drs_solve(projections, show_prints=True, ask_to_save=True)
DrsSolveParams == {"projections", "show_prints", "ask_to_save"}

Params(fn) == IF fn = "normal_solve" THEN NormalSolveParams ELSE DrsSolveParams

\* the four calls of run_all_solves, in the order of the list it builds
RunAllSolvesCalls ==
    <<[fn |-> "normal_solve", keywords |-> {"show_prints", "ask_to_save"}],
      [fn |-> "normal_solve",
       keywords |-> {"is_wildcard", "show_prints", "ask_to_save"}],
      [fn |-> "normal_solve",
       keywords |-> {"is_limitless", "show_prints", "ask_to_save"}],
      [fn |-> "drs_solve", keywords |-> {"show_prints", "ask_to_save"}]>>

\* Python binds a call's keywords to the parameters of the function, and
\* raises TypeError for a keyword the function does not have
Binds(call) == call.keywords \subseteq Params(call.fn)

\* what drs_solve returns when it does not ask to save
DrsReturns(P, cfg, file) ==
    LET w == LoadConfig(cfg)
        ld == LoadTeam(file)
        cost_cap == CostCap(P, ld)
        call == Loaded(NoCall, "drs_solve", ld, cost_cap, w)
        best == DrsSolutions(P, ld, cost_cap, w)
    IN IF best = {} THEN {NoneValue}
       ELSE {DrsReturn(DrsExtract(call, P, ld, s)) : s \in best}

\* run_all_solves: the elements of the list are evaluated in order, and the
\* first call that does not bind raises.  normal_solve returns None.
RunAllSolves(P, cfg, file) ==
    IF \E i \in 1..Len(RunAllSolvesCalls) : ~Binds(RunAllSolvesCalls[i])
    THEN [error |-> "TypeError", lists |-> {}]
    ELSE IF LoadTeam(file).error # ""
    THEN [error |-> LoadTeam(file).error, lists |-> {}]
    ELSE [error |-> "",
          lists |-> {<<NoneValue, NoneValue, NoneValue, d>> :
                        d \in DrsReturns(P, cfg, file)}]

\* compare_solves(solves): solves[0]['base_xPts'] raises IndexError on an
\* empty list and TypeError on None; so does solve['base_xPts'] in the loop.
\* A later entry of the same solve_name overwrites an earlier one.
CompareSolves(list) ==
    IF list = <<>>
    THEN [error |-> "IndexError", differences |-> <<>>]
    ELSE IF \E i \in 1..Len(list) : list[i].is_none
    THEN [error |-> "TypeError", differences |-> <<>>]
    ELSE [error |-> "",
          differences |->
            [n \in {list[i].solve_name : i \in 1..Len(list)} |->
                LET i == CHOOSE i \in 1..Len(list) :
                            /\ list[i].solve_name = n
                            /\ \A j \in (i + 1)..Len(list) : list[j].solve_name # n
                IN list[i].base_xPts - list[1].base_xPts]]

\* main: differences = compare_solves(run_all_solves(projections,
\* show_outputs=False, ask_save=False))
CompareAllModes ==
    LET run == RunAllSolves(projections, config, team_file) IN
    /\ last.fn = "none"
    /\ IF run.error # ""
       THEN /\ last' = [NoCall EXCEPT !.fn = "run_all_solves", !.error = run.error]
            /\ UNCHANGED solves
       ELSE \E list \in run.lists :
              /\ solves' = list
              /\ last' = [NoCall EXCEPT !.fn = "compare_solves",
                                        !.error = CompareSolves(list).error,
                                        !.differences = CompareSolves(list).differences]
    /\ UNCHANGED <<projections, config, team_file, round>>

(***************************************************************************)
(* The environment: the next race week's projections, an edited            *)
(* configuration, and the return to the menu after a call.                 *)
(***************************************************************************)
FetchProjections ==
    /\ round < MaxRounds
    /\ round' = round + 1
    /\ projections' \in ProjectionTables
    /\ last' = NoCall
    /\ UNCHANGED <<config, team_file, solves>>

EditConfig ==
    /\ last.fn = "none"
    /\ config' \in Configs \ {config}
    /\ UNCHANGED <<projections, team_file, round, solves, last>>

Menu ==
    /\ last.fn # "none"
    /\ last' = NoCall
    /\ UNCHANGED <<projections, config, team_file, round, solves>>

Init ==
    /\ projections \in ProjectionTables
    /\ config \in Configs
    /\ team_file \in InitialFiles
    /\ round = 0
    /\ solves = <<>>
    /\ last = NoCall

Next ==
    \/ NormalSolve
    \/ DrsSolve
    \/ CompareAllModes
    \/ FetchProjections
    \/ EditConfig
    \/ Menu

Spec == Init /\ [][Next]_vars

(***************************************************************************)
(* compare_solves on its own: the lists of four results a caller can hand  *)
(* it, each entry None or a result of the solve type of its position.      *)
(***************************************************************************)
\* the solve names menu() reads from the differences
SolveNames == <<"Normal", "Wildcard", "Limitless", "DRS Boost">>

BaseValues == {0, 40, 95}

SolveLists ==
    {list \in [1..Len(SolveNames) ->
                 {NoneValue} \cup
                 {[is_none |-> FALSE, solve_name |-> n, base_xPts |-> v] :
                     n \in SeqToSet(SolveNames), v \in BaseValues}] :
        \A i \in 1..Len(SolveNames) :
            ~list[i].is_none => list[i].solve_name = SolveNames[i]}

CompareSolvesCall ==
    /\ last.fn = "none"
    /\ last' = [NoCall EXCEPT !.fn = "compare_solves",
                              !.error = CompareSolves(solves).error,
                              !.differences = CompareSolves(solves).differences]
    /\ UNCHANGED <<projections, config, team_file, round, solves>>

InitCompare ==
    /\ projections \in ProjectionTables
    /\ config \in Configs
    /\ team_file = AbsentFile
    /\ round = 0
    /\ solves \in SolveLists
    /\ last = NoCall

NextCompare == CompareSolvesCall

SpecCompare == InitCompare /\ [][NextCompare]_vars

(***************************************************************************)
(* The claims.  last describes the call that has just ended; projections   *)
(* and config are the ones that call read, since fetching new projections  *)
(* resets last and the configuration is edited only between calls.         *)
(***************************************************************************)
ClaimSolved == last.optimal

ClaimMax(a, b) == IF a >= b THEN a ELSE b

ClaimAllSelected == last.selected_drivers \o last.selected_constructors

ClaimPreviousRoster ==
    SeqToSet(last.previous_drivers) \cup SeqToSet(last.previous_constructors)

ClaimFirstRound ==
    last.previous_drivers = <<>> /\ last.previous_constructors = <<>>

\* the selected names that are not in the previous roster
ClaimNewNames ==
    Cardinality({n \in SeqToSet(ClaimAllSelected) : n \notin ClaimPreviousRoster})

\* the xPts of the selected entries with the extra copies of the boosts
ClaimXPtsOnly ==
    SumSeq(ClaimAllSelected, projections.xPts)
    + (IF last.fn = "normal_solve"
       THEN projections.xPts[last.boosted_driver]
       ELSE projections.xPts[last.boosted_driver_2x]
            + 2 * projections.xPts[last.boosted_driver_3x])

\* the bonus terms of the objective
ClaimBonus ==
    last.price_change_weight * SumSeq(ClaimAllSelected, projections.price_change)
    + last.roll_transfer_weight * last.roll_transfer

ClaimSaveWritten == last.save = "y" /\ last.write = "written"

\* C1: a roster that a solve returns has exactly 5 different drivers and 2
\* different constructors, costs at most the cost cap, and its boost
\* recipients are selected drivers: exactly one in normal_solve; exactly one
\* 2x and exactly one 3x recipient, two different drivers, in drs_solve.
C1_RosterMeetsConstraints ==
    ClaimSolved =>
        /\ Len(last.selected_drivers) = 5
        /\ Cardinality(SeqToSet(last.selected_drivers)) = 5
        /\ Len(last.selected_constructors) = 2
        /\ Cardinality(SeqToSet(last.selected_constructors)) = 2
        /\ SeqToSet(last.selected_drivers) \subseteq SeqToSet(projections.drivers)
        /\ SeqToSet(last.selected_constructors)
               \subseteq SeqToSet(projections.constructors)
        /\ SumSeq(ClaimAllSelected, projections.price) <= last.cost_cap
        /\ last.fn = "normal_solve" =>
               /\ last.solution.b = {last.boosted_driver}
               /\ InList(last.boosted_driver, last.selected_drivers)
        /\ last.fn = "drs_solve" =>
               /\ last.solution.b2 = {last.boosted_driver_2x}
               /\ last.solution.b3 = {last.boosted_driver_3x}
               /\ InList(last.boosted_driver_2x, last.selected_drivers)
               /\ InList(last.boosted_driver_3x, last.selected_drivers)
               /\ last.boosted_driver_2x # last.boosted_driver_3x

\* a drs_solve roster that spends the whole cost cap
C1_Witness ==
    /\ ClaimSolved
    /\ last.fn = "drs_solve"
    /\ last.total_selected_cost = last.cost_cap

\* C2 as stated: after a confirmed save the file holds available_transfers
\* 2 if the previous roster was empty or transfers_used equals
\* available_transfers, and 3 in every other case.
C2_Original ==
    ClaimSaveWritten =>
        /\ team_file.kind = "team"
        /\ team_file.data.available_transfers =
              IF ClaimFirstRound \/ last.transfers_used = last.available_transfers
              THEN 2 ELSE 3

\* C2 amended: after a confirmed save the file holds available_transfers 2
\* if the previous roster was empty or transfers_used is at least
\* available_transfers, and 3 if the previous roster was not empty and
\* transfers_used is less than available_transfers.
C2_NextAvailableTransfers ==
    ClaimSaveWritten =>
        /\ team_file.kind = "team"
        /\ team_file.data.available_transfers =
              IF ClaimFirstRound \/ last.transfers_used >= last.available_transfers
              THEN 2 ELSE 3

\* a save of a round that used more transfers than it had
C2_Witness ==
    /\ ClaimSaveWritten
    /\ ~ClaimFirstRound
    /\ last.transfers_used > last.available_transfers
    /\ team_file.data.available_transfers = 2

\* C3: in every result penalty_transfers is max(0, transfers_used -
\* available_transfers), transfers_used being the number of selected names
\* that are not in the previous roster; it is never negative, it is 0 under
\* the unlimited allowance, and the maximised objective is the points and
\* bonuses less exactly 10 for each unit of it.
C3_PenaltyIsExcess ==
    ClaimSolved =>
        /\ last.transfers_used = ClaimNewNames
        /\ last.penalty = ClaimMax(0, ClaimNewNames - last.available_transfers)
        /\ last.penalty >= 0
        /\ last.available_transfers = 1000 => last.penalty = 0
        /\ last.objective = ClaimXPtsOnly + ClaimBonus - 10 * last.penalty

\* two available transfers, three new names, one penalty transfer
C3_Witness ==
    /\ ClaimSolved
    /\ last.available_transfers = 2
    /\ last.transfers_used = 3
    /\ last.penalty = 1

ClaimSolveStarts ==
    last.fn = "none" /\ last'.fn \in {"normal_solve", "drs_solve"}

\* the present prices of the names of the file that the projections list
ClaimPresentValue ==
    SumSeq(SelectSeq(team_file.data.drivers \o team_file.data.constructors,
                     LAMBDA n : n \in DOMAIN projections.price),
           projections.price)

\* C4: the cost cap of a solve is the sum of the present prices of the
\* previous names that the projections list, plus the remaining_budget of
\* the file; with no file the cost cap is 100.0, the previous roster is
\* empty and available_transfers is 1000.
C4_CostCap ==
    [][ClaimSolveStarts =>
          /\ team_file.kind = "team" =>
                /\ last'.cost_cap =
                      ClaimPresentValue + team_file.data.remaining_budget
                /\ last'.previous_drivers = team_file.data.drivers
                /\ last'.previous_constructors = team_file.data.constructors
          /\ team_file.kind = "absent" =>
                /\ last'.cost_cap = 10000
                /\ last'.previous_drivers = <<>>
                /\ last'.previous_constructors = <<>>
                /\ last'.available_transfers = 1000]_vars

\* a solve whose previous roster holds a driver the projections do not list
C4_Witness ==
    /\ ClaimSolved
    /\ \E i \in 1..Len(last.previous_drivers) :
          ~InList(last.previous_drivers[i], projections.drivers)
    /\ last.previous_constructors # <<>>
    /\ last.cost_cap > 0

\* C5 as stated: base_xPts is the sum of the xPts of the selected entries
\* and of the extra copies of the boosted drivers, and nothing else.
C5_Original == ClaimSolved => last.base_xPts = ClaimXPtsOnly

\* C5 amended: base_xPts is the sum of the xPts of the selected entries and
\* of the extra copies of the boosted drivers, less 10 for each penalty
\* transfer; it holds no price change bonus and no roll bonus, whatever the
\* two weights are.
C5_BaseXPts ==
    ClaimSolved => last.base_xPts = ClaimXPtsOnly - 10 * last.penalty

\* a drs_solve result with penalty transfers under a price change weight
C5_Witness ==
    /\ ClaimSolved
    /\ last.fn = "drs_solve"
    /\ last.penalty > 0
    /\ last.price_change_weight > 0
    /\ SumSeq(ClaimAllSelected, projections.price_change) # 0

\* C6: the file changes only in a solve that asked to save and was answered
\* "y"; when the user declines, when the solve does not ask, and when the
\* status is not optimal, the file after the call is the file before it.
C6_SaveOnlyOnConfirmation ==
    [][team_file' # team_file =>
          /\ last'.optimal
          /\ last'.asked
          /\ last'.save = "y"]_vars

\* a solve that found a roster and was answered "n"
C6_Witness ==
    /\ ClaimSolved
    /\ last.asked
    /\ last.save = "n"

\* C7: the save is atomic: a write that fails leaves the team that was in
\* the file intact, and the success message is printed only once the new
\* team is in the file.
C7_Original ==
    [][/\ (team_file.kind = "team"
           /\ last'.write \in {"open_failed", "dump_interrupted"}) =>
              team_file' = team_file
       /\ last'.saved_message => team_file'.kind = "team"]_vars

\* C8: when a mode has no result (None), compare_solves still ends without
\* an exception and holds a difference for every mode that has a result.
C8_Original ==
    (last.fn = "compare_solves" /\ \E i \in 1..Len(solves) : solves[i].is_none) =>
        /\ last.error = ""
        /\ \A i \in 1..Len(solves) :
              ~solves[i].is_none => solves[i].solve_name \in DOMAIN last.differences

\* C9: the comparison of all modes ends with a difference for each of the
\* four solve names, each that mode's base_xPts less the Normal one's, the
\* Normal difference being 0.
C9_Original ==
    last.fn \in {"run_all_solves", "compare_solves"} =>
        /\ last.error = ""
        /\ Len(solves) = 4
        /\ DOMAIN last.differences = SeqToSet(SolveNames)
        /\ last.differences["Normal"] = 0
        /\ \A i \in 1..4 :
              last.differences[SolveNames[i]] =
                  solves[i].base_xPts - solves[1].base_xPts

\* C10: a solve that finds a file that is not JSON does not raise on it and
\* goes on with the values of a first round: no previous roster,
\* available_transfers 1000, cost cap 100.0.
C10_InvalidJsonDefaults ==
    [][(ClaimSolveStarts /\ team_file.kind = "invalid") =>
          /\ last'.error \in {"", "OSError"}
          /\ last'.previous_drivers = <<>>
          /\ last'.previous_constructors = <<>>
          /\ last'.available_transfers = 1000
          /\ last'.cost_cap = 10000]_vars

\* a solve that read a file that is not JSON, found a roster and left the
\* file alone
C10_Witness ==
    /\ ClaimSolved
    /\ team_file.kind = "invalid"
    /\ last.write = ""
    /\ last.cost_cap = 10000

\* the names of list s that are not among the names of list t, in s's order
ClaimWithout(s, t) == SelectSeq(s, LAMBDA n : n \notin SeqToSet(t))

ClaimMin(a, b) == IF a <= b THEN a ELSE b

ClaimDriverPairs ==
    ClaimMin(Len(ClaimWithout(last.previous_drivers, last.selected_drivers)),
             Len(ClaimWithout(last.selected_drivers, last.previous_drivers)))

ClaimConstructorPairs ==
    ClaimMin(Len(ClaimWithout(last.previous_constructors, last.selected_constructors)),
             Len(ClaimWithout(last.selected_constructors, last.previous_constructors)))

\* C11: the transfers of a result are min(removed, added) driver pairs and
\* then min(removed, added) constructor pairs, the i-th pair of a role being
\* the i-th removed name, " > ", the i-th added name; removed are the
\* previous names not selected, added the selected names not in the previous
\* roster.  With a previous roster of 5 drivers and 2 constructors the
\* number of pairs is transfers_used.
C11_Transfers ==
    ClaimSolved =>
        /\ Len(last.transfers) = ClaimDriverPairs + ClaimConstructorPairs
        /\ \A i \in 1..ClaimDriverPairs :
              last.transfers[i] =
                <<ClaimWithout(last.previous_drivers, last.selected_drivers)[i],
                  " > ",
                  ClaimWithout(last.selected_drivers, last.previous_drivers)[i]>>
        /\ \A i \in 1..ClaimConstructorPairs :
              last.transfers[ClaimDriverPairs + i] =
                <<ClaimWithout(last.previous_constructors,
                               last.selected_constructors)[i],
                  " > ",
                  ClaimWithout(last.selected_constructors,
                               last.previous_constructors)[i]>>
        /\ (Len(last.previous_drivers) = 5 /\ Len(last.previous_constructors) = 2)
              => Len(last.transfers) = last.transfers_used

\* a full previous roster, two drivers and a constructor exchanged
C11_Witness ==
    /\ ClaimSolved
    /\ Len(last.previous_drivers) = 5
    /\ Len(last.previous_constructors) = 2
    /\ ClaimDriverPairs = 2
    /\ ClaimConstructorPairs = 1
    /\ last.transfers_used = 3

\* a drs_solve that built its program with available_transfers > 1
ClaimRollConstrained ==
    /\ last.fn = "drs_solve"
    /\ last.error = ""
    /\ last.available_transfers > 1

\* C12: in a drs_solve with available_transfers > 1, for every selection
\* that meets the roster constraints, roll_transfer = 1 meets the
\* constraints exactly when the selection's total_transfers is less than
\* available_transfers.
C12_Original ==
    ClaimRollConstrained =>
        \A xy \in Rosters(projections, last.cost_cap) :
            (1 \in Rolls(TotalTransfers(xy[1], xy[2], last), last.available_transfers))
            <=> (TotalTransfers(xy[1], xy[2], last) < last.available_transfers)

\* the projections of a next round that list every name of the file at the
\* price the saved solve saw
ClaimUnchangedTables ==
    {P \in ProjectionTables :
        \A n \in SeqToSet(team_file.data.drivers \o team_file.data.constructors) :
            /\ n \in DOMAIN P.price
            /\ P.price[n] = projections.price[n]}

\* C13: the remaining_budget that a confirmed save leaves in the file is
\* not negative, and a next solve whose projections list every saved name
\* at an unchanged price computes the cost cap of the solve that was saved.
C13_Original ==
    ClaimSaveWritten =>
        /\ team_file.kind = "team"
        /\ team_file.data.remaining_budget >= 0
        /\ \A P \in ClaimUnchangedTables :
              CostCap(P, LoadTeam(team_file)) = last.cost_cap

\* the greatest xPts among the drivers of list s
ClaimIsBestOf(d, s) ==
    /\ InList(d, s)
    /\ \A i \in 1..Len(s) : projections.xPts[s[i]] <= projections.xPts[d]

\* C14: in every result the boosts are on the best selected drivers: in
\* normal_solve no selected driver has more xPts than the boosted driver;
\* in drs_solve no selected driver has more xPts than the 3x driver, and no
\* selected driver other than the 3x driver has more xPts than the 2x
\* driver; whatever the weights and the transfer allowance are.
C14_BoostOnBest ==
    ClaimSolved =>
        /\ last.fn = "normal_solve" =>
              ClaimIsBestOf(last.boosted_driver, last.selected_drivers)
        /\ last.fn = "drs_solve" =>
              /\ ClaimIsBestOf(last.boosted_driver_3x, last.selected_drivers)
              /\ ClaimIsBestOf(last.boosted_driver_2x,
                               SelectSeq(last.selected_drivers,
                                         LAMBDA d : d # last.boosted_driver_3x))

\* a drs_solve under both weights that pays a penalty transfer, whose 3x
\* driver has more xPts than its 2x driver and is not the first selected
C14_Witness ==
    /\ ClaimSolved
    /\ last.fn = "drs_solve"
    /\ last.price_change_weight > 0
    /\ last.roll_transfer_weight > 0
    /\ last.penalty > 0
    /\ projections.xPts[last.boosted_driver_3x]
          > projections.xPts[last.boosted_driver_2x]
    /\ last.boosted_driver_3x # Head(last.selected_drivers)

====
